---- MODULE Spec2Model ----
(***************************************************************************)
(* Model of the AI-News-Aggregator backend.                                *)
(*                                                                         *)
(*   - AIService.detect_fake_news / AIService._analyze_credibility         *)
(*     (src/backend/app/services/ai_services.py): the credibility          *)
(*     heuristic, computed on Python strings character by character.       *)
(*   - fetch_and_process_articles (src/backend/app/routes/articles.py):    *)
(*     the ingestion loop that calls the summarizer and the detector.      *)
(*   - AIService.summarize_text / AIService._fallback_summarize: the       *)
(*     remote summary and its extractive fallback.                         *)
(*   - get_article (src/backend/app/routes/articles.py): the lookup of one *)
(*     article by id.                                                      *)
(*   - get_database / init_db (src/backend/app/services/database.py): the  *)
(*     shared database client.                                             *)
(*                                                                         *)
(* Python str values are TLA+ strings.  Python floats are IEEE 754         *)
(* binary64 values, every operation rounded to nearest, ties to even.      *)
(***************************************************************************)
EXTENDS Integers, Sequences, FiniteSets, TLC

(***************************************************************************)
(* Natural numbers of any size, as the sequence of their digits in base    *)
(* 2^15, lowest digit first and no leading zero digit (0 is << >>): the    *)
(* 53-bit significands of binary64 and their products exceed the integers  *)
(* of the model checker.                                                   *)
(***************************************************************************)
Limb == 32768
LimbBits == 15

Abs(x) == IF x < 0 THEN -x ELSE x
IMax(a, b) == IF a < b THEN b ELSE a         \* Python max on ints
IMin(a, b) == IF a < b THEN a ELSE b

RECURSIVE Pow2(_)
Pow2(k) == IF k = 0 THEN 1 ELSE 2 * Pow2(k - 1)

RECURSIVE NNorm(_)
NNorm(a) ==
    IF a = << >> THEN a
    ELSE IF a[Len(a)] = 0 THEN NNorm(SubSeq(a, 1, Len(a) - 1)) ELSE a

RECURSIVE NFromInt(_)
NFromInt(k) == IF k = 0 THEN << >> ELSE << k % Limb >> \o NFromInt(k \div Limb)

\* -1, 0 or 1 as a < b, a = b or a > b.
RECURSIVE NCmpFrom(_, _, _)
NCmpFrom(a, b, i) ==
    IF i = 0 THEN 0
    ELSE IF a[i] < b[i] THEN -1
    ELSE IF a[i] > b[i] THEN 1
    ELSE NCmpFrom(a, b, i - 1)

NCmp(a, b) ==
    IF Len(a) < Len(b) THEN -1
    ELSE IF Len(a) > Len(b) THEN 1
    ELSE NCmpFrom(a, b, Len(a))

NDigit(a, i) == IF i <= Len(a) THEN a[i] ELSE 0

RECURSIVE NAddFrom(_, _, _, _)
NAddFrom(a, b, i, carry) ==
    IF i > Len(a) /\ i > Len(b)
    THEN IF carry = 0 THEN << >> ELSE << carry >>
    ELSE LET t == NDigit(a, i) + NDigit(b, i) + carry
         IN  << t % Limb >> \o NAddFrom(a, b, i + 1, t \div Limb)

NAdd(a, b) == NAddFrom(a, b, 1, 0)

\* a - b for a >= b.
RECURSIVE NSubFrom(_, _, _, _)
NSubFrom(a, b, i, borrow) ==
    IF i > Len(a) THEN << >>
    ELSE LET t == a[i] - NDigit(b, i) - borrow
         IN  IF t < 0 THEN << t + Limb >> \o NSubFrom(a, b, i + 1, 1)
             ELSE << t >> \o NSubFrom(a, b, i + 1, 0)

NSub(a, b) == NNorm(NSubFrom(a, b, 1, 0))

\* a * d for one digit d.
RECURSIVE NMulDigitFrom(_, _, _, _)
NMulDigitFrom(a, d, i, carry) ==
    IF i > Len(a) THEN IF carry = 0 THEN << >> ELSE << carry >>
    ELSE LET t == a[i] * d + carry
         IN  << t % Limb >> \o NMulDigitFrom(a, d, i + 1, t \div Limb)

NMulDigit(a, d) == IF d = 0 THEN << >> ELSE NMulDigitFrom(a, d, 1, 0)

\* a * Limb^k
NShiftDigits(a, k) == IF a = << >> \/ k = 0 THEN a ELSE [i \in 1..k |-> 0] \o a

RECURSIVE NMulFrom(_, _, _)
NMulFrom(a, b, i) ==
    IF i > Len(b) THEN << >>
    ELSE NAdd(NShiftDigits(NMulDigit(a, b[i]), i - 1), NMulFrom(a, b, i + 1))

NMul(a, b) == NMulFrom(a, b, 1)

\* a * 2^k
NShl(a, k) == NShiftDigits(NMulDigit(a, Pow2(k % LimbBits)), k \div LimbBits)

\* floor(a / d) for one digit d > 0.
RECURSIVE NDivDigitFrom(_, _, _, _)
NDivDigitFrom(a, d, i, rem) ==
    IF i = 0 THEN << >>
    ELSE LET t == rem * Limb + a[i]
         IN  NDivDigitFrom(a, d, i - 1, t % d) \o << t \div d >>

NDivDigit(a, d) == NNorm(NDivDigitFrom(a, d, Len(a), 0))

\* floor(a / 2^k)
NShr(a, k) ==
    LET whole == k \div LimbBits
    IN  IF whole >= Len(a) THEN << >>
        ELSE NDivDigit(SubSeq(a, whole + 1, Len(a)), Pow2(k % LimbBits))

RECURSIVE BitLenInt(_)
BitLenInt(k) == IF k = 0 THEN 0 ELSE 1 + BitLenInt(k \div 2)

\* The number of binary digits of a.
NBitLen(a) ==
    IF a = << >> THEN 0 ELSE (Len(a) - 1) * LimbBits + BitLenInt(a[Len(a)])

NIsOdd(a) == a # << >> /\ a[1] % 2 = 1

(***************************************************************************)
(* Python float: IEEE 754 binary64 with round-to-nearest, ties-to-even.    *)
(* A float is [s, m, e] with value s * m * 2^e, where s is 1 or -1 and the *)
(* significand m has exactly 53 binary digits; 0.0 is [0, << >>, 0].  The  *)
(* scores stay far from the subnormal and the overflow range, which are    *)
(* not modelled, as are -0.0, inf and nan.                                 *)
(***************************************************************************)
Precision == 53

FZero == [s |-> 0, m |-> << >>, e |-> 0]

\* s * q * 2^E for a rounded q: rounding 2^53 - 1 up gives 2^53, of 54
\* binary digits, which is 2^52 at the next exponent.
FRoundCarry(s, q, E) ==
    IF NBitLen(q) > Precision
    THEN [s |-> s, m |-> NShr(q, 1), e |-> E + 1]
    ELSE [s |-> s, m |-> q, e |-> E]

\* q rounded up when the digits dropped are more than half a unit of q
\* (c = 1), or exactly half (c = 0) with q odd.
FRoundTies(s, q, c, E) ==
    FRoundCarry(s, IF c = 1 \/ (c = 0 /\ NIsOdd(q)) THEN NAdd(q, << 1 >>) ELSE q, E)

\* M = q * 2^k + r with r < 2^k: the k lowest binary digits are dropped
\* and r is compared with 2^(k-1).
FRoundDrop(s, M, k, q, E) ==
    FRoundTies(s, q, NCmp(NSub(M, NShl(q, k)), NShl(<< 1 >>, k - 1)), E + k)

\* M of len binary digits is brought to 53 digits.
FRoundBits(s, M, E, len) ==
    IF len <= Precision
    THEN [s |-> s, m |-> NShl(M, Precision - len), e |-> E - (Precision - len)]
    ELSE FRoundDrop(s, M, len - Precision, NShr(M, len - Precision), E)

\* The float nearest to s * M * 2^E for a natural M, ties to even.
FRound(s, M, E) == IF M = << >> THEN FZero ELSE FRoundBits(s, M, E, NBitLen(M))

\* float(k) for an int k.
FInt(k) == FRound(IF k < 0 THEN -1 ELSE 1, NFromInt(Abs(k)), 0)

\* Extra binary digits the quotient of a division is computed with.
DivShift == 75

\* s * (2 * q + 1) * 2^-(DivShift + 1) when N = q * d + rem with rem > 0, and
\* s * (2 * q) * 2^-(DivShift + 1) when N = q * d.
FloatQuotient(s, N, q, d) ==
    FRound(s,
           NAdd(NMulDigit(q, 2),
                IF NSub(N, NMulDigit(q, d)) = << >> THEN << >> ELSE << 1 >>),
           -(DivShift + 1))

\* s * (N / d) * 2^-DivShift
FloatOf(s, N, d) == FloatQuotient(s, N, NDivDigit(N, d), d)

\* n / d for ints n and d, 0 < d < 2^15: the float nearest to the quotient
\* (Python's int true division and its decimal literals, 0.7 = Float(7, 10),
\* are both correctly rounded).  The remainder is kept as a last digit that
\* breaks ties.
Float(n, d) == FloatOf(IF n < 0 THEN -1 ELSE 1, NShl(NFromInt(Abs(n)), DivShift), d)

FNeg(a) == [a EXCEPT !.s = -a.s]

\* a * b
FMul(a, b) == FRound(a.s * b.s, NMul(a.m, b.m), a.e + b.e)

\* sa * A * 2^e0 + sb * B * 2^e0, rounded: the sum of the magnitudes for
\* equal signs, else the larger less the smaller with the sign of the
\* larger (0.0 when they are equal).
FAddAligned(sa, A, sb, B, e0) ==
    IF sa = sb THEN FRound(sa, NAdd(A, B), e0)
    ELSE FRound(IF NCmp(A, B) = 1 THEN sa ELSE sb,
                IF NCmp(A, B) = 1 THEN NSub(A, B) ELSE NSub(B, A), e0)

\* a + b
FAdd(a, b) ==
    IF a.s = 0 THEN b
    ELSE IF b.s = 0 THEN a
    ELSE FAddAligned(a.s, NShl(a.m, a.e - IMin(a.e, b.e)),
                     b.s, NShl(b.m, b.e - IMin(a.e, b.e)), IMin(a.e, b.e))

\* a - b
FSub(a, b) == FAdd(a, FNeg(b))

\* a < b for non-negative a and b.
FLtAbs(a, b) ==
    IF b.s = 0 THEN FALSE
    ELSE IF a.s = 0 THEN TRUE
    ELSE a.e < b.e \/ (a.e = b.e /\ NCmp(a.m, b.m) = -1)

\* a < b
FLt(a, b) ==
    IF a.s # b.s THEN a.s < b.s
    ELSE IF a.s = -1 THEN FLtAbs(b, a)
    ELSE FLtAbs(a, b)

FLe(a, b)  == ~FLt(b, a)
FMax(a, b) == IF FLt(a, b) THEN b ELSE a     \* Python max(a, b)
FMin(a, b) == IF FLt(b, a) THEN b ELSE a     \* Python min(a, b)

(***************************************************************************)
(* Python str operations over TLA+ strings (ASCII letters are the cased    *)
(* characters of the model).                                               *)
(***************************************************************************)
\* s[i-1] in Python: the i-th character, as a one-character string.
Ch(s, i) == SubSeq(s, i, i)

LowerOf ==
    ("A" :> "a") @@ ("B" :> "b") @@ ("C" :> "c") @@ ("D" :> "d") @@ ("E" :> "e") @@
    ("F" :> "f") @@ ("G" :> "g") @@ ("H" :> "h") @@ ("I" :> "i") @@ ("J" :> "j") @@
    ("K" :> "k") @@ ("L" :> "l") @@ ("M" :> "m") @@ ("N" :> "n") @@ ("O" :> "o") @@
    ("P" :> "p") @@ ("Q" :> "q") @@ ("R" :> "r") @@ ("S" :> "s") @@ ("T" :> "t") @@
    ("U" :> "u") @@ ("V" :> "v") @@ ("W" :> "w") @@ ("X" :> "x") @@ ("Y" :> "y") @@
    ("Z" :> "z")

UpperSet == DOMAIN LowerOf
LowerSet == {LowerOf[c] : c \in UpperSet}

\* The ASCII control characters that have no escape in a string: vertical
\* tab and the file, group, record and unit separators (0x0b, 0x1c-0x1f).
VT == ""
FS == ""
GS == ""
RS == ""
US == ""

\* The ASCII characters str.split() and str.strip() take as whitespace.
Whitespace == {" ", "\t", "\n", "\r", "\f", VT, FS, GS, RS, US}

\* str.lower() of one character.
LowerChar(c) == IF c \in UpperSet THEN LowerOf[c] ELSE c

\* text.lower()
RECURSIVE Lower(_)
Lower(s) ==
    IF Len(s) = 0 THEN ""
    ELSE IF Len(s) = 1 THEN LowerChar(s)
    ELSE LET h == Len(s) \div 2
         IN  Lower(SubSeq(s, 1, h)) \o Lower(SubSeq(s, h + 1, Len(s)))

\* Python `word in text`: word occurs in text as a substring.
Contains(text, word) ==
    \E i \in 1..(Len(text) - Len(word) + 1) :
        SubSeq(text, i, i + Len(word) - 1) = word

\* Python s[:n] for n >= 0.
Take(s, n) == SubSeq(s, 1, IF Len(s) < n THEN Len(s) ELSE n)

\* text.count(ch) for a one-character ch.
CountChar(text, ch) == Cardinality({i \in 1..Len(text) : Ch(text, i) = ch})

\* text.split(): the maximal runs of non-whitespace, as <<first, last>> pairs.
Split(text) ==
    LET n == Len(text)
        NonSpace == {i \in 1..n : Ch(text, i) \notin Whitespace}
        Starts == {i \in NonSpace : i = 1 \/ (i - 1) \notin NonSpace}
        Ends == {j \in NonSpace : j = n \/ (j + 1) \notin NonSpace}
        EndOf(i) == CHOOSE j \in Ends : j >= i /\ \A e \in Ends : e >= i => j <= e
    IN  {<<i, EndOf(i)>> : i \in Starts}

\* word.isupper(): at least one cased character and no lower-case one.
IsUpper(text, w) ==
    /\ \E k \in w[1]..w[2] : Ch(text, k) \in UpperSet
    /\ \A k \in w[1]..w[2] : Ch(text, k) \notin LowerSet

(***************************************************************************)
(* Python values handed to detect_fake_news: a str, None or an int.        *)
(* val is the value's str() text.                                          *)
(***************************************************************************)
PyStr(s)  == [kind |-> "str", val |-> s]
PyNone    == [kind |-> "None", val |-> "None"]
PyInt(s)  == [kind |-> "int", val |-> s]

\* f"{v}": format() of a str, None or int never fails.
Format(v) == v.val

\* v[:500] is defined for a str; None and int are not subscriptable (TypeError).
CanSlice(v) == v.kind = "str"

ContentLimit == 500

(***************************************************************************)
(* The fixed phrase lists of _analyze_credibility.                         *)
(***************************************************************************)
suspicious_words ==
    << "shocking", "unbelievable", "secret", "they dont want you to know",
       "miracle", "conspiracy", "breaking", "exclusive", "viral",
       "you wont believe", "doctors hate", "one weird trick" >>

emotional_words ==
    << "outraged", "furious", "devastating", "alarming", "terrifying",
       "amazing", "incredible", "fantastic", "horrific", "scandalous" >>

credible_indicators ==
    << "according to", "research shows", "study found", "experts say",
       "data indicates", "survey revealed", "analysis suggests" >>

\* Mutant: every occurrence of a phrase is counted (text_lower.count(word)).
CountOccurrences(words, text_lower) ==
    LET occ(w) == Cardinality({i \in 1..(Len(text_lower) - Len(w) + 1) :
                                   SubSeq(text_lower, i, i + Len(w) - 1) = w})
        RECURSIVE Sum(_)
        Sum(k) == IF k = 0 THEN 0 ELSE occ(words[k]) + Sum(k - 1)
    IN  Sum(Len(words))

\* sum(1 for word in words if word in text_lower)
CountMatches(words, text_lower) ==
    Cardinality({i \in 1..Len(words) : Contains(text_lower, words[i])})

(***************************************************************************)
(* textstat.flesch_kincaid_grade is a library outside the repository.  It  *)
(* is modelled as an unknown but fixed function of its argument: fkSeed,   *)
(* chosen in Init and never changed, names the function in use (fk below), *)
(* which selects the outcome each text gets; over the functions every text *)
(* meets every outcome.  An outcome is a grade or a raised exception.      *)
(***************************************************************************)
VARIABLES fkSeed, call, store, run, summ, req, db, conn

NumOracles == 5

Grade(g) == [raised |-> FALSE, grade |-> g]
GradeRaises == [raised |-> TRUE, grade |-> FInt(0)]

GradeOutcomes ==
    << Grade(Float(59, 10)), Grade(FInt(6)), Grade(FInt(16)), Grade(Float(161, 10)),
       GradeRaises >>

Oracles == 0..(NumOracles - 1)

flesch_kincaid_grade(fk, text) ==
    GradeOutcomes[((Len(text) + fk) % Len(GradeOutcomes)) + 1]

(***************************************************************************)
(* AIService._analyze_credibility, statement by statement.  The result is  *)
(* the frame of locals at the return statement; ret is the value returned. *)
(***************************************************************************)
BaseScore == Float(7, 10)
ScoreFloor == Float(1, 10)
ScoreCeiling == FInt(1)

\* Mutant: suspicious phrases raise the score.
Factor1Adds(score, suspicious_count) ==
    FAdd(score, FMul(FInt(suspicious_count), Float(5, 100)))

\* score -= suspicious_count * 0.05
Factor1(score, suspicious_count) ==
    FSub(score, FMul(FInt(suspicious_count), Float(5, 100)))

\* len([word for word in text.split() if word.isupper() and len(word) > 2])
CapsWords(text) ==
    Cardinality({w \in Split(text) : IsUpper(text, w) /\ (w[2] - w[1] + 1) > 2})

\* caps_words / max(len(text.split()), 1)
CapsRatio(text) == Float(CapsWords(text), IMax(Cardinality(Split(text)), 1))

\* score -= caps_ratio * 0.3
Factor2(score, caps_ratio) == FSub(score, FMul(caps_ratio, Float(3, 10)))

\* (exclamation_count + question_count) / max(len(text), 1)
ExcessivePunct(text) ==
    Float(CountChar(text, "!") + CountChar(text, "?"), IMax(Len(text), 1))

\* score -= excessive_punct * 20
Factor3(score, excessive_punct) == FSub(score, FMul(excessive_punct, FInt(20)))

\* Mutant: the lower threshold is inclusive (reading_level <= 6).
Factor4Inclusive(score, reading) ==
    IF reading.raised THEN score
    ELSE IF FLe(reading.grade, FInt(6)) THEN FSub(score, Float(1, 10))
    ELSE IF FLt(FInt(16), reading.grade) THEN FSub(score, Float(5, 100))
    ELSE score

\* Mutant: a failed estimate is taken as grade 0, a very simple text.
Factor4FailureAsZero(score, reading) ==
    IF reading.raised THEN FSub(score, Float(1, 10))
    ELSE IF FLt(reading.grade, FInt(6)) THEN FSub(score, Float(1, 10))
    ELSE IF FLt(FInt(16), reading.grade) THEN FSub(score, Float(5, 100))
    ELSE score

\* try: reading_level = flesch_kincaid_grade(text); if < 6 ... elif > 16 ...
\* except: pass
Factor4(score, reading) ==
    IF reading.raised THEN score
    ELSE IF FLt(reading.grade, FInt(6)) THEN FSub(score, Float(1, 10))
    ELSE IF FLt(FInt(16), reading.grade) THEN FSub(score, Float(5, 100))
    ELSE score

\* Mutant: the emotional-word weight is 0.3.
Factor5Heavy(score, emotional_count) ==
    FSub(score, FMul(FInt(emotional_count), Float(3, 10)))

\* score -= emotional_count * 0.03
Factor5(score, emotional_count) ==
    FSub(score, FMul(FInt(emotional_count), Float(3, 100)))

\* score += credible_count * 0.05
Factor6(score, credible_count) ==
    FAdd(score, FMul(FInt(credible_count), Float(5, 100)))

\* Mutant: the lower bound is dropped (return min(1.0, score)).
ClampNoFloor(score) == FMin(ScoreCeiling, score)

\* return max(0.1, min(1.0, score))
Clamp(score) == FMax(ScoreFloor, FMin(ScoreCeiling, score))

\* The locals at `return max(0.1, min(1.0, score))` and the value returned.
ReturnFrame(suspicious_count, caps_ratio, excessive_punct, reading, emotional_count, credible_count, score) ==
    [ suspicious_count |-> suspicious_count,
      caps_ratio       |-> caps_ratio,
      excessive_punct  |-> excessive_punct,
      reading          |-> reading,
      emotional_count  |-> emotional_count,
      credible_count   |-> credible_count,
      score            |-> score,
      ret              |-> Clamp(score) ]

analyze_credibility(fk, text) ==
    LET text_lower       == Lower(text)
        suspicious_count == CountMatches(suspicious_words, text_lower)
        s1               == Factor1(BaseScore, suspicious_count)
        caps_ratio       == CapsRatio(text)
        s2               == Factor2(s1, caps_ratio)
        excessive_punct  == ExcessivePunct(text)
        s3               == Factor3(s2, excessive_punct)
        reading          == flesch_kincaid_grade(fk, text)
        s4               == Factor4(s3, reading)
        emotional_count  == CountMatches(emotional_words, text_lower)
        s5               == Factor5(s4, emotional_count)
        credible_count   == CountMatches(credible_indicators, text_lower)
        s6               == Factor6(s5, credible_count)
    IN  ReturnFrame(suspicious_count, caps_ratio, excessive_punct, reading,
                    emotional_count, credible_count, s6)

(***************************************************************************)
(* AIService.detect_fake_news.  branch tells which return statement ended  *)
(* the call: "return" (line 87), "except" (line 94), or "raise" when an    *)
(* exception leaves the function.                                          *)
(***************************************************************************)
NoLocals ==
    [ suspicious_count |-> 0, caps_ratio |-> FInt(0), excessive_punct |-> FInt(0),
      reading |-> GradeRaises, emotional_count |-> 0, credible_count |-> 0,
      score |-> FInt(0), ret |-> FInt(0) ]

NoOut ==
    [ branch |-> "none", score |-> FInt(0), confidence |-> FInt(0),
      text |-> "", locals |-> NoLocals ]

\* Mutant: the content is not truncated.
TextUntruncated(title, content) == Format(title) \o ". " \o content.val

\* text_to_analyze = f"{title}. {content[:500]}"
TextToAnalyze(title, content) ==
    Format(title) \o ". " \o Take(content.val, ContentLimit)

\* The try body raises when content[:500] does.
TryRaises(title, content) == ~CanSlice(content)

\* Mutant: the handler lets the exception leave the function.
ExceptPropagates(title, content) ==
    [ branch |-> "raise", score |-> FInt(0), confidence |-> FInt(0),
      text |-> "", locals |-> NoLocals ]

\* except Exception as e: ... return {"score": 0.6, "confidence": 0.3}
ExceptBranch(title, content) ==
    [ branch |-> "except", score |-> Float(6, 10), confidence |-> Float(3, 10),
      text |-> "", locals |-> NoLocals ]

\* return {"score": credibility_score, "confidence": 0.75}
ReturnBranch(text, locals) ==
    [ branch |-> "return", score |-> locals.ret, confidence |-> Float(75, 100),
      text |-> text, locals |-> locals ]

detect_fake_news(fk, title, content) ==
    IF TryRaises(title, content)
    THEN ExceptBranch(title, content)
    ELSE LET text == TextToAnalyze(title, content)
         IN  ReturnBranch(text, analyze_credibility(fk, text))

(***************************************************************************)
(* Inputs.                                                                 *)
(***************************************************************************)
RECURSIVE Rep(_, _)
Rep(s, n) == IF n = 0 THEN "" ELSE IF n = 1 THEN s
             ELSE Rep(s, n \div 2) \o Rep(s, n - (n \div 2))

AllCredible ==
    "according to research shows study found experts say data indicates survey revealed analysis suggests"
SixCredible ==
    "according to research shows study found data indicates survey revealed analysis suggests"

LongTitle == Rep("a", ContentLimit) \o " secret"

Inputs ==
    { \* Scenario 1 of the specification.
      << PyStr("Breaking"),
         PyStr("Scientists according to a new study found that exercise improves health.") >>,
      \* Scenario 2: upper-case, exclamation marks, suspicious words.
      << PyStr("SHOCKING MIRACLE CURE!!!!!"), PyStr("DOCTORS HATE THIS SECRET!") >>,
      \* Scenario 3: contents that cannot be sliced.
      << PyStr("Breaking"), PyNone >>,
      << PyStr("City council vote"), PyInt("42") >>,
      \* A title that is not a string is formatted, not rejected.
      << PyNone, PyStr("The council met on monday and approved the budget.") >>,
      \* Scenario 4: neutral text, and neutral text with capitals or a question mark.
      << PyStr("City council vote"), PyStr("The council met on monday and approved the budget.") >>,
      << PyStr("NASA and ESA report"), PyStr("The council met on monday and approved the budget.") >>,
      << PyStr("City council vote"), PyStr("Did the council meet on monday to approve the budget?") >>,
      \* Two upper-case tokens of two characters, separated by a vertical tab.
      << PyStr("AB" \o VT \o "CD report"), PyStr("The council met on monday and approved the budget.") >>,
      \* Every feature present at once.
      << PyStr("NASA viral?"), PyStr("amazing claim according to experts in the city council") >>,
      \* One more suspicious word, everything else equal.
      << PyStr("City council vote"), PyStr("The council met on monday and approved the vocal budget.") >>,
      << PyStr("City council vote"), PyStr("The council met on monday and approved the viral budget.") >>,
      \* One more credibility phrase, everything else equal.
      << PyStr("City council vote"), PyStr("The council met on monday, experts sat.") >>,
      << PyStr("City council vote"), PyStr("The council met on monday, experts say.") >>,
      \* At the ceiling.
      << PyStr("vocal"), PyStr(AllCredible) >>,
      << PyStr("viral"), PyStr(AllCredible) >>,
      << PyStr("experts sat"), PyStr(SixCredible) >>,
      << PyStr("experts say"), PyStr(SixCredible) >>,
      \* At the floor.
      << PyStr("WHAT!!!!!!!!"), PyStr("a vocal thing experts sat") >>,
      << PyStr("WHAT!!!!!!!!"), PyStr("a viral thing experts sat") >>,
      << PyStr("WHAT!!!!!!!!"), PyStr("a vocal thing experts say") >>,
      \* Repeated phrases, phrases inside words, upper-case phrases.
      << PyStr("Secret"), PyStr("The secretary kept a secret. SECRET antiviral amazing amazing.") >>,
      \* Contents longer than 500 characters.
      << PyStr("City council vote"), PyStr(Rep("a", ContentLimit - 3) \o " secret!") >>,
      \* A title and contents longer than 500 characters.
      << PyStr(LongTitle), PyStr(Rep("a", ContentLimit) \o " secret!") >>,
      << PyStr(LongTitle), PyStr(Rep("a", ContentLimit) \o " experts say") >> }

Callers == {"a", "b"}

(***************************************************************************)
(* Articles as parse_rss_feed produces them: title and link of the feed    *)
(* entry and a cleaned content of more than 100 characters.                *)
(***************************************************************************)
Article(url, title, content) ==
    [url |-> url, title |-> PyStr(title), content |-> PyStr(content)]

CouncilStory ==
    Article("https://news.example/council",
            "City council vote",
            "The council met on monday and approved the budget for the next year, "
                \o "according to the minutes published by the town hall.")
CureStory ==
    Article("https://news.example/cure",
            "SHOCKING miracle cure!",
            "Doctors hate this one weird trick, an amazing secret they dont want "
                \o "you to know about, and it is going viral right now!!")
\* The council story again, as another feed carries it under the same link.
CouncilStoryAgain ==
    Article("https://news.example/council",
            "Council approves budget",
            "The council met on monday and approved the budget for the next year, "
                \o "experts say the decision was expected for several weeks.")

\* What fetch_all_sources may return; no source may answer.
Feeds ==
    { << >>, << CouncilStory >>, << CouncilStory, CureStory >>,
      << CureStory, CouncilStoryAgain >> }

\* How a summarize_text call ends: with the remote summary, with the
\* extractive fallback, or with None (status 200 without a usable body).
SummaryKinds == {"remote", "fallback", "None"}

Articles == UNION {{feed[k] : k \in 1..Len(feed)} : feed \in Feeds}

\* detect_fake_news, tabulated over the library functions and over the
\* arguments the model calls it with.
DetectOf ==
    [fk \in Oracles |->
        [in \in Inputs \cup {<< a.title, a.content >> : a \in Articles} |->
            detect_fake_news(fk, in[1], in[2])]]

\* credibility = await ai_service.detect_fake_news(title, content): the
\* dict the call returns.
Credibility(out) == [score |-> out.score, confidence |-> out.confidence]

\* POST /fetch and POST /refresh each start one background task.
Runs == {"fetch", "refresh"}

(***************************************************************************)
(* AIService._fallback_summarize and the Python str operations it uses.    *)
(***************************************************************************)
SetMin(S) == CHOOSE x \in S : \A y \in S : x <= y
SetMax(S) == CHOOSE x \in S : \A y \in S : y <= x

\* s.strip()
Strip(s) ==
    LET keep == {i \in 1..Len(s) : Ch(s, i) \notin Whitespace}
    IN  IF keep = {} THEN "" ELSE SubSeq(s, SetMin(keep), SetMax(keep))

\* s.split(sep) for a one-character sep: the list of the pieces.
RECURSIVE SplitOn(_, _)
SplitOn(s, sep) ==
    LET at == {i \in 1..Len(s) : Ch(s, i) = sep}
    IN  IF at = {} THEN << s >>
        ELSE LET d == SetMin(at)
             IN  << SubSeq(s, 1, d - 1) >> \o SplitOn(SubSeq(s, d + 1, Len(s)), sep)

\* sep.join(pieces)
RECURSIVE Join(_, _)
Join(sep, pieces) ==
    IF pieces = << >> THEN ""
    ELSE IF Len(pieces) = 1 THEN pieces[1]
    ELSE pieces[1] \o sep \o Join(sep, Tail(pieces))

\* Python seq[:n] on a list.
TakeList(seq, n) == SubSeq(seq, 1, IF Len(seq) < n THEN Len(seq) ELSE n)

MaxLength == 150
ShortText == 100
ShortCut == 200
PayloadLimit == 1000
FallbackSentences == 3

\* text[:200] + "..."
Shortened(text) == Take(text, ShortCut) \o "..."

\* _fallback_summarize(text, max_length); nothing in its try raises on a str.
fallback_summarize(text, max_length) ==
    LET sentences == SplitOn(text, ".")
        summary_sentences == TakeList(sentences, FallbackSentences)
        joined == Strip(Join(". ", summary_sentences))
        summary == IF Len(joined) > max_length
                   THEN Take(joined, max_length) \o "..."
                   ELSE joined
    IN  IF summary # "" THEN summary ELSE Shortened(text)

(***************************************************************************)
(* What the inference API may answer to the one POST of summarize_text:    *)
(* the call raises (timeout, connection error) or a response arrives with  *)
(* a status; response.json() raises or gives the decoded body.             *)
(***************************************************************************)
PostRaises == [raised |-> TRUE, status |-> 0]
Response(status) == [raised |-> FALSE, status |-> status]

PostOutcomes == {PostRaises, Response(200), Response(503)}

\* Decoded JSON bodies: a list of items or an object; an item is an object
\* with its keys or a string.
JsonRaises == [raised |-> TRUE, islist |-> FALSE, items |-> << >>]
JList(items) == [raised |-> FALSE, islist |-> TRUE, items |-> items]
JObject == [raised |-> FALSE, islist |-> FALSE, items |-> << >>]
Item(v) == [isdict |-> TRUE, has_summary_text |-> TRUE, summary_text |-> v]
ItemWithoutSummary == [isdict |-> TRUE, has_summary_text |-> FALSE, summary_text |-> PyNone]
ItemString == [isdict |-> FALSE, has_summary_text |-> FALSE, summary_text |-> PyNone]

RemoteSummary == "The council approved the budget for the next year."

JsonResults ==
    { JsonRaises,
      \* [{"summary_text": "..."}], the documented reply
      JList(<< Item(PyStr(RemoteSummary)) >>),
      \* [{"generated_text": "..."}]
      JList(<< ItemWithoutSummary >>),
      \* ["..."]
      JList(<< ItemString >>),
      \* []
      JList(<< >>),
      \* {"error": "..."} or {"estimated_time": ...}
      JObject }

\* The texts summarize_text is called with.
Texts ==
    { "", "Short note.", Rep(" ", ShortCut) \o "note",
      VT \o Rep("x", ShortText - 1) \o FS \o GS \o US,
      CouncilStory.content.val, CureStory.content.val,
      "The council met on monday. It approved the budget for the next year.  "
          \o "The vote was close. The mayor spoke to the press after the session "
          \o "and thanked the members for their long work on every chapter of it.",
      Rep("word ", 210) }

IdleSummarize ==
    [ pc |-> "idle", text |-> "", requests |-> << >>, response |-> PostRaises,
      result |-> JsonRaises, out |-> PyNone ]

\* The parts of summarize_text that depend on the text alone, tabulated over
\* the texts: the test of line 25 and the value of line 26, the payload of
\* line 30 and the value of _fallback_summarize(text, max_length).
SummarizeOf ==
    [text \in Texts |->
        [ short |-> (text = "" \/ Len(Strip(text)) < ShortText),
          early |-> IF Len(text) > ShortCut THEN Shortened(text) ELSE text,
          truncated_text |-> Take(text, PayloadLimit),
          fallback |-> fallback_summarize(text, MaxLength) ]]

\* return await self._fallback_summarize(text, max_length)
ReturnFallback(f) ==
    [f EXCEPT !.pc = "done", !.out = PyStr(SummarizeOf[f.text].fallback)]

(***************************************************************************)
(* bson.ObjectId as get_article uses it: ObjectId(s) accepts a string of   *)
(* 24 hexadecimal digits of either case and raises InvalidId on any other; *)
(* two ObjectIds are equal when their bytes are, and str() gives the       *)
(* lower-case digits.  An ObjectId is modelled by that lower-case string.  *)
(***************************************************************************)
ObjectIdLen == 24
HexDigits ==
    {"0", "1", "2", "3", "4", "5", "6", "7", "8", "9",
     "a", "b", "c", "d", "e", "f", "A", "B", "C", "D", "E", "F"}

IsValidObjectId(s) ==
    Len(s) = ObjectIdLen /\ \A i \in 1..Len(s) : Ch(s, i) \in HexDigits

ObjectId(s) == Lower(s)

\* The _id insert_one gives the k-th document of the collection: ids are
\* generated, and no two documents get the same.
ObjectIdOf(k) == Rep("0", ObjectIdLen - 1) \o Ch("abcdef", k)

\* The ids get_article is asked for: ids a document may have, in lower and
\* in upper case, an id no document gets, and strings that are no ObjectId.
ArticleIds ==
    { ObjectIdOf(1), Rep("0", ObjectIdLen - 1) \o "A", ObjectIdOf(2), ObjectIdOf(6),
      "abc", Rep("z", ObjectIdLen) }

\* ObjectId(article_id) per requested id: whether it raises, and its value.
ObjectIdFor ==
    [article_id \in ArticleIds |->
        [valid |-> IsValidObjectId(article_id), oid |-> ObjectId(article_id)]]

IdleRequest ==
    [ pc |-> "idle", article_id |-> "", article |-> 0, raised |-> << >>,
      status |-> 0, id |-> "" ]

(***************************************************************************)
(* services/database.py: the Database object db and the callers of         *)
(* get_database and init_db.  Clients are numbered in creation order, 0    *)
(* is None; pinged holds the clients whose ping has succeeded.             *)
(***************************************************************************)
NoClient == [client |-> 0, created |-> 0, pinged |-> {}]

\* db.client = AsyncIOMotorClient(...)
NewClient(d) == [d EXCEPT !.client = d.created + 1, !.created = d.created + 1]

\* The ping of the stored client has succeeded.
Pinged(d) == [d EXCEPT !.pinged = d.pinged \cup {d.client}]

DbOps == {"get_database", "init_db"}

IdleConn == [pc |-> "idle", op |-> "init_db", out |-> "None", handle |-> 0]

\* return db.client.ai_news_aggregator in get_database; init_db returns None.
DbReturn(f, client) ==
    IF f.op = "get_database"
    THEN [f EXCEPT !.pc = "done", !.out = "handle", !.handle = client]
    ELSE [f EXCEPT !.pc = "done", !.out = "None"]

(***************************************************************************)
(* State: fkSeed, the library function in use; call[c], the frame of       *)
(* caller c's detect_fake_news call; store, the documents of the articles  *)
(* collection in insertion order; run[r], the frame of background task r:  *)
(* pc is the await it is suspended at, calls the summarize_text and sleep  *)
(* calls it has made, scored the positions of raw_articles it has called   *)
(* detect_fake_news for.  The body of detect_fake_news has no suspension   *)
(* point, so it runs in one step once the call is started.                 *)
(* summ[c] is the frame of caller c's summarize_text call, req[c] that of  *)
(* its get_article request, conn[c] that of its get_database or init_db    *)
(* call, and db the Database object.                                       *)
(***************************************************************************)
vars == << fkSeed, call, store, run, summ, req, db, conn >>

IdleFrame == [pc |-> "idle", title |-> PyNone, content |-> PyNone, out |-> NoOut]

NoCredibility == [score |-> FInt(0), confidence |-> FInt(0)]

IdleRun ==
    [ pc |-> "idle", raw_articles |-> << >>, i |-> 0, summary |-> "None",
      credibility |-> NoCredibility, processed_count |-> 0, calls |-> << >>,
      scored |-> << >> ]

Init ==
    /\ fkSeed \in Oracles
    /\ call = [c \in Callers |-> IdleFrame]
    /\ store = << >>
    /\ run = [r \in Runs |-> IdleRun]
    /\ summ = [c \in Callers |-> IdleSummarize]
    /\ req = [c \in Callers |-> IdleRequest]
    /\ db = NoClient
    /\ conn = [c \in Callers |-> IdleConn]

\* Caller c creates the coroutine detect_fake_news(title, content).
Call(c, title, content) ==
    /\ call[c].pc \in {"idle", "done"}
    /\ call' = [call EXCEPT ![c] =
                   [pc |-> "called", title |-> title, content |-> content, out |-> NoOut]]
    /\ UNCHANGED << fkSeed, store, run, summ, req, db, conn >>

\* The coroutine runs to its return statement.
Run(c) ==
    /\ call[c].pc = "called"
    /\ call' = [call EXCEPT ![c].pc = "done",
                            ![c].out = DetectOf[fkSeed][<< call[c].title, call[c].content >>]]
    /\ UNCHANGED << fkSeed, store, run, summ, req, db, conn >>

Next ==
    \/ \E c \in Callers : \E in \in Inputs : Call(c, in[1], in[2])
    \/ \E c \in Callers : Run(c)

Spec == Init /\ [][Next]_vars

(***************************************************************************)
(* fetch_and_process_articles, one action per stretch of code between two  *)
(* awaits.                                                                 *)
(***************************************************************************)
\* `continue`, or the end of the loop body: the next article, or the end of
\* the task.  The next iteration starts by calling collection.find_one.
NextArticle(f) ==
    IF f.i < Len(f.raw_articles)
    THEN [f EXCEPT !.i = f.i + 1, !.pc = "find_one"]
    ELSE [f EXCEPT !.pc = "finished"]

\* The task starts and awaits news_aggregator.fetch_all_sources(), which
\* suspends at each request and sleep and touches no state of the service.
StartRun(r) ==
    /\ run[r].pc = "idle"
    /\ run' = [run EXCEPT ![r] = [IdleRun EXCEPT !.pc = "fetch_all_sources"]]
    /\ UNCHANGED << fkSeed, call, store, summ, req, db, conn >>

\* fetch_all_sources returns the feed and get_database() is awaited: with
\* a client stored it returns at once and the loop starts, with none
\* init_db creates and stores one and awaits its ping.
FetchAllSourcesReturns(r, feed) ==
    /\ run[r].pc = "fetch_all_sources"
    /\ LET f == [run[r] EXCEPT !.raw_articles = feed]
       IN  IF db.client = 0
           THEN /\ db' = NewClient(db)
                /\ run' = [run EXCEPT ![r] = [f EXCEPT !.pc = "ping"]]
           ELSE /\ db' = db
                /\ run' = [run EXCEPT ![r] = NextArticle(f)]
    /\ UNCHANGED << fkSeed, call, store, summ, req, conn >>

\* The ping returns and get_database returns the database, or it raises:
\* init_db re-raises, the client stays stored, and the outer handler of
\* the task prints and ends the task.
RunPingReturns(r, ok) ==
    /\ run[r].pc = "ping"
    /\ IF ok
       THEN /\ db' = Pinged(db)
            /\ run' = [run EXCEPT ![r] = NextArticle(run[r])]
       ELSE /\ db' = db
            /\ run' = [run EXCEPT ![r].pc = "finished"]
    /\ UNCHANGED << fkSeed, call, store, summ, req, conn >>

\* collection.find_one({"url": ...}) returns or raises.  A stored url or an
\* error skips the article; otherwise summarize_text is called.
FindOneReturns(r, ok) ==
    /\ run[r].pc = "find_one"
    /\ LET f == run[r]
           article_data == f.raw_articles[f.i]
           existing == \E k \in 1..Len(store) : store[k].url = article_data.url
       IN  run' = [run EXCEPT ![r] =
                      IF ~ok \/ existing
                      THEN NextArticle(f)
                      ELSE [f EXCEPT !.pc = "summarize_text",
                                     !.calls = Append(f.calls, "summarize_text")]]
    /\ UNCHANGED << fkSeed, call, store, summ, req, db, conn >>

\* summarize_text returns; detect_fake_news runs, the document is built and
\* collection.insert_one is called.
SummarizeReturns(r, kind) ==
    /\ run[r].pc = "summarize_text"
    /\ LET f == run[r]
       IN  run' = [run EXCEPT ![r] =
                      [f EXCEPT !.pc = "insert_one",
                                !.summary = kind,
                                !.scored = Append(f.scored, f.i),
                                !.credibility =
                                    Credibility(DetectOf[fkSeed][<< f.raw_articles[f.i].title,
                                                                    f.raw_articles[f.i].content >>])]]
    /\ UNCHANGED << fkSeed, call, store, summ, req, db, conn >>

\* insert_one returns: the document is stored, the count goes up and
\* asyncio.sleep(0.5) is called.  Or it raises: the handler prints and the
\* loop continues with the next article.
InsertOneReturns(r, ok) ==
    /\ run[r].pc = "insert_one"
    /\ LET f == run[r]
           article_data == f.raw_articles[f.i]
           article == [ _id |-> ObjectIdOf(Len(store) + 1),
                        url |-> article_data.url,
                        title |-> article_data.title,
                        content |-> article_data.content,
                        summary |-> f.summary,
                        credibility_score |-> f.credibility.score ]
       IN  IF ok
           THEN /\ store' = Append(store, article)
                /\ run' = [run EXCEPT ![r] =
                              [f EXCEPT !.pc = "sleep",
                                        !.processed_count = f.processed_count + 1]]
           ELSE /\ store' = store
                /\ run' = [run EXCEPT ![r] = NextArticle(f)]
    /\ UNCHANGED << fkSeed, call, summ, req, db, conn >>

\* asyncio.sleep(0.5) returns: the pacing delay has been executed.
SleepReturns(r) ==
    /\ run[r].pc = "sleep"
    /\ run' = [run EXCEPT ![r] =
                  NextArticle([run[r] EXCEPT !.calls = Append(run[r].calls, "sleep")])]
    /\ UNCHANGED << fkSeed, call, store, summ, req, db, conn >>

NextFetch ==
    \/ \E r \in Runs : StartRun(r)
    \/ \E r \in Runs : \E feed \in Feeds : FetchAllSourcesReturns(r, feed)
    \/ \E r \in Runs : \E ok \in BOOLEAN : RunPingReturns(r, ok)
    \/ \E r \in Runs : \E ok \in BOOLEAN : FindOneReturns(r, ok)
    \/ \E r \in Runs : \E kind \in SummaryKinds : SummarizeReturns(r, kind)
    \/ \E r \in Runs : \E ok \in BOOLEAN : InsertOneReturns(r, ok)
    \/ \E r \in Runs : SleepReturns(r)

SpecFetch == Init /\ [][NextFetch]_vars

(***************************************************************************)
(* AIService.summarize_text, one action per stretch of code between two    *)
(* awaits on the network.                                                  *)
(***************************************************************************)
\* Caller c calls summarize_text(text): a short text is returned at once,
\* any other is truncated and posted to the inference API.
SummarizeCall(c, text) ==
    /\ summ[c].pc \in {"idle", "done"}
    /\ summ' = [summ EXCEPT ![c] =
                   IF SummarizeOf[text].short
                   THEN [IdleSummarize EXCEPT
                            !.pc = "done", !.text = text,
                            !.out = PyStr(SummarizeOf[text].early)]
                   ELSE [IdleSummarize EXCEPT
                            !.pc = "post", !.text = text,
                            !.requests = << SummarizeOf[text].truncated_text >>]]
    /\ UNCHANGED << fkSeed, call, store, run, req, db, conn >>

\* session.post(...) raises or gives the response: status 200 goes on to
\* response.json(), any other status and any exception to the fallback.
PostReturns(c, response) ==
    /\ summ[c].pc = "post"
    /\ LET f == [summ[c] EXCEPT !.response = response]
       IN  summ' = [summ EXCEPT ![c] =
                       IF response.raised THEN ReturnFallback(f)
                       ELSE IF response.status = 200 THEN [f EXCEPT !.pc = "json"]
                       ELSE ReturnFallback(f)]
    /\ UNCHANGED << fkSeed, call, store, run, req, db, conn >>

\* response.json() raises or gives the body.  A non-empty list returns
\* result[0].get('summary_text', ''), which raises when result[0] is no
\* object; any other body leaves the if without a return statement.
JsonReturns(c, result) ==
    /\ summ[c].pc = "json"
    /\ LET f == [summ[c] EXCEPT !.result = result]
       IN  summ' = [summ EXCEPT ![c] =
                       IF result.raised THEN ReturnFallback(f)
                       ELSE IF result.islist /\ Len(result.items) > 0
                       THEN IF ~result.items[1].isdict THEN ReturnFallback(f)
                            ELSE [f EXCEPT
                                     !.pc = "done",
                                     !.out = IF result.items[1].has_summary_text
                                             THEN result.items[1].summary_text
                                             ELSE PyStr("")]
                       ELSE [f EXCEPT !.pc = "done", !.out = PyNone]]
    /\ UNCHANGED << fkSeed, call, store, run, req, db, conn >>

NextSummarize ==
    \/ \E c \in Callers : \E text \in Texts : SummarizeCall(c, text)
    \/ \E c \in Callers : \E response \in PostOutcomes : PostReturns(c, response)
    \/ \E c \in Callers : \E result \in JsonResults : JsonReturns(c, result)

SpecSummarize == Init /\ [][NextSummarize]_vars

(***************************************************************************)
(* get_article, one action per stretch of code between two awaits.         *)
(* raised lists the exceptions raised inside the try block, status is the  *)
(* status of the answer: 200 for a returned ArticleResponse, otherwise the *)
(* status_code of the HTTPException that leaves the handler.               *)
(***************************************************************************)
\* except Exception as e: raise HTTPException(status_code=500, ...)
ExceptException(f, e) ==
    [f EXCEPT !.pc = "done", !.raised = Append(f.raised, e), !.status = 500]

\* get_database() has returned: ObjectId(article_id) is built, which raises
\* on a string that is no ObjectId, and find_one is awaited.
CallFindOne(f) ==
    IF ~ObjectIdFor[f.article_id].valid
    THEN ExceptException(f, "InvalidId")
    ELSE [f EXCEPT !.pc = "find_one"]

\* GET /{article_id} arrives and get_database() is awaited: with a client
\* stored it returns at once, with none init_db creates and stores one and
\* awaits its ping.
GetArticleCall(c, article_id) ==
    /\ req[c].pc \in {"idle", "done"}
    /\ LET f == [IdleRequest EXCEPT !.article_id = article_id]
       IN  IF db.client = 0
           THEN /\ db' = NewClient(db)
                /\ req' = [req EXCEPT ![c] = [f EXCEPT !.pc = "ping"]]
           ELSE /\ db' = db
                /\ req' = [req EXCEPT ![c] = CallFindOne(f)]
    /\ UNCHANGED << fkSeed, call, store, run, summ, conn >>

\* The ping returns and get_database returns the database, or it raises
\* and the exception reaches the handler of line 90.
GetPingReturns(c, ok) ==
    /\ req[c].pc = "ping"
    /\ IF ok
       THEN /\ db' = Pinged(db)
            /\ req' = [req EXCEPT ![c] = CallFindOne(req[c])]
       ELSE /\ db' = db
            /\ req' = [req EXCEPT ![c] = ExceptException(req[c], "get_database")]
    /\ UNCHANGED << fkSeed, call, store, run, summ, conn >>

\* find_one({"_id": ObjectId(article_id)}) returns the document or None, or
\* raises.  `if not article: raise HTTPException(status_code=404, ...)` is
\* inside the try block, and HTTPException is an Exception: the handler of
\* line 90 catches it as any other.
GetFindOneReturns(c, ok) ==
    /\ req[c].pc = "find_one"
    /\ LET f == req[c]
           oid == ObjectIdFor[f.article_id].oid
           hits == {k \in 1..Len(store) : store[k]._id = oid}
           article == IF hits = {} THEN 0 ELSE SetMin(hits)
       IN  req' = [req EXCEPT ![c] =
                      IF ~ok THEN ExceptException(f, "find_one")
                      ELSE IF article = 0
                      THEN ExceptException(f, "HTTPException(404)")
                      ELSE [f EXCEPT !.pc = "done", !.article = article,
                                     !.status = 200, !.id = store[article]._id]]
    /\ UNCHANGED << fkSeed, call, store, run, summ, db, conn >>

\* Requests for single articles while one background run stores the
\* council story and the cure story.
NextGet ==
    \/ StartRun("fetch")
    \/ FetchAllSourcesReturns("fetch", << CouncilStory, CureStory >>)
    \/ RunPingReturns("fetch", TRUE)
    \/ FindOneReturns("fetch", TRUE)
    \/ SummarizeReturns("fetch", "remote")
    \/ InsertOneReturns("fetch", TRUE)
    \/ SleepReturns("fetch")
    \/ \E c \in Callers : \E article_id \in ArticleIds : GetArticleCall(c, article_id)
    \/ \E c \in Callers : \E ok \in BOOLEAN : GetPingReturns(c, ok)
    \/ \E c \in Callers : \E ok \in BOOLEAN : GetFindOneReturns(c, ok)

SpecGet == Init /\ [][NextGet]_vars

(***************************************************************************)
(* get_database and init_db.  The only await that suspends is the ping:    *)
(* `await init_db()` runs init_db up to it without yielding.               *)
(***************************************************************************)
\* Caller c calls op.  With no client stored, init_db creates one, stores
\* it and awaits its ping; with a client stored, init_db does nothing and
\* get_database returns the handle of the stored client.
DbCall(c, op) ==
    /\ conn[c].pc \in {"idle", "done"}
    /\ IF db.client = 0
       THEN /\ db' = NewClient(db)
            /\ conn' = [conn EXCEPT ![c] = [IdleConn EXCEPT !.pc = "ping", !.op = op]]
       ELSE /\ db' = db
            /\ conn' = [conn EXCEPT ![c] = DbReturn([IdleConn EXCEPT !.op = op], db.client)]
    /\ UNCHANGED << fkSeed, call, store, run, summ, req >>

\* The ping returns: init_db returns and get_database returns the handle.
\* Or it raises: init_db prints and re-raises, db.client stays as it is,
\* and the exception leaves get_database as well.
PingReturns(c, ok) ==
    /\ conn[c].pc = "ping"
    /\ IF ok
       THEN /\ db' = Pinged(db)
            /\ conn' = [conn EXCEPT ![c] = DbReturn(conn[c], db.client)]
       ELSE /\ db' = db
            /\ conn' = [conn EXCEPT ![c].pc = "done", ![c].out = "raise"]
    /\ UNCHANGED << fkSeed, call, store, run, summ, req >>

NextDb ==
    \/ \E c \in Callers : \E op \in DbOps : DbCall(c, op)
    \/ \E c \in Callers : \E ok \in BOOLEAN : PingReturns(c, ok)

SpecDb == Init /\ [][NextDb]_vars

(***************************************************************************)
(* Properties of detect_fake_news.                                         *)
(***************************************************************************)
Done(c)     == call[c].pc = "done"
Returned(c) == Done(c) /\ call[c].out.branch = "return"
Out(c)      == call[c].out
Locals(c)   == call[c].out.locals

\* C1: the score of every result detect_fake_news returns, the fallback
\* included, lies between 0.1 and 1.0.
C1_ScoreInRange ==
    \A c \in Callers :
        Done(c) => /\ Out(c).branch \in {"return", "except"}
                   /\ FLe(Float(1, 10), Out(c).score)
                   /\ FLe(Out(c).score, FInt(1))

\* A call whose unclamped sum fell below 0.1 has returned the floor, another
\* whose sum rose above 1.0 has returned the ceiling.
C1_Witness ==
    \E a, b \in Callers :
        /\ Returned(a) /\ FLt(Locals(a).score, Float(1, 10)) /\ Out(a).score = Float(1, 10)
        /\ Returned(b) /\ FLt(FInt(1), Locals(b).score) /\ Out(b).score = FInt(1)

\* C2: no exception leaves detect_fake_news; the call returns the pair
\* {0.6, 0.3} exactly when building the analysis text or scoring it failed.
C2_FallbackIffFailure ==
    \A c \in Callers :
        Done(c) =>
            /\ Out(c).branch # "raise"
            /\ (call[c].content.kind # "str")
                   <=> (Out(c).score = Float(6, 10) /\ Out(c).confidence = Float(3, 10))

\* A call with a content that cannot be sliced has returned the fallback.
C2_Witness ==
    \E c \in Callers :
        /\ Done(c) /\ call[c].content.kind = "None" /\ Out(c).branch = "except"
        /\ Out(c).score = Float(6, 10) /\ Out(c).confidence = Float(3, 10)

\* The six adjustments of the scorer, applied to a running score.
ApplyFactor(k, score, l) ==
    CASE k = 1 -> Factor1(score, l.suspicious_count)
      [] k = 2 -> Factor2(score, l.caps_ratio)
      [] k = 3 -> Factor3(score, l.excessive_punct)
      [] k = 4 -> Factor4(score, l.reading)
      [] k = 5 -> Factor5(score, l.emotional_count)
      [] k = 6 -> Factor6(score, l.credible_count)

RECURSIVE ApplyInOrder(_, _, _)
ApplyInOrder(order, score, l) ==
    IF order = << >> THEN score
    ELSE ApplyInOrder(Tail(order), ApplyFactor(Head(order), score, l), l)

Orders ==
    { <<6, 5, 4, 3, 2, 1>>, <<2, 3, 4, 5, 6, 1>>, <<3, 4, 5, 6, 1, 2>>,
      <<4, 5, 6, 1, 2, 3>>, <<5, 6, 1, 2, 3, 4>>, <<6, 1, 2, 3, 4, 5>>,
      <<4, 1, 6, 3, 5, 2>>, <<2, 4, 6, 1, 3, 5>> }

\* The reading-grade term g of the formula.
GradeTerm(reading) ==
    IF reading.raised THEN FInt(0)
    ELSE IF FLt(reading.grade, FInt(6)) THEN Float(1, 10)
    ELSE IF FLt(FInt(16), reading.grade) THEN Float(5, 100)
    ELSE FInt(0)

\* 0.7 - 0.05 s - 0.3 caps - 20 punct - g - 0.03 e + 0.05 c
LinearSum(l) ==
    FAdd(FSub(FSub(FSub(FSub(FSub(Float(7, 10),
        FMul(Float(5, 100), FInt(l.suspicious_count))),
        FMul(Float(3, 10), l.caps_ratio)),
        FMul(FInt(20), l.excessive_punct)),
        GradeTerm(l.reading)),
        FMul(Float(3, 100), FInt(l.emotional_count))),
        FMul(Float(5, 100), FInt(l.credible_count)))

ClampTo(x, lo, hi) == IF FLt(x, lo) THEN lo ELSE IF FLt(hi, x) THEN hi ELSE x

\* The frames of locals the scorer can return with, and over them the
\* formula and the score each order of the adjustments gives.
LocalsSeen == {DetectOf[fk][in].locals : fk \in Oracles, in \in Inputs}

FormulaOf ==
    [l \in LocalsSeen |-> ClampTo(LinearSum(l), Float(1, 10), FInt(1))]

InOrderOf ==
    [l \in LocalsSeen |-> [o \in Orders |-> Clamp(ApplyInOrder(o, BaseScore, l))]]

\* C3 as stated: a successful call returns confidence 0.75 and the clamped
\* linear sum of the six adjustments, whatever the order the adjustments
\* are applied in.
C3_AsStated ==
    \A c \in Callers :
        Returned(c) =>
            /\ Out(c).confidence = Float(75, 100)
            /\ Locals(c) \in LocalsSeen
            /\ Out(c).score = FormulaOf[Locals(c)]
            /\ \A o \in Orders : InOrderOf[Locals(c)][o] = Out(c).score

\* 1e-12, far above the rounding error of six additions near 1.
OrderTolerance == FMul(FMul(Float(1, 10000), Float(1, 10000)), Float(1, 10000))

\* |a - b| <= OrderTolerance
Near(a, b) ==
    /\ FLe(FSub(a, b), OrderTolerance)
    /\ FLe(FSub(b, a), OrderTolerance)

\* C3 (amended): a successful call returns confidence 0.75 and the clamped
\* linear sum of the six adjustments, evaluated in binary64 from left to
\* right as written; applying the adjustments in another order changes the
\* result by rounding error only.
C3_ScoreFormula ==
    \A c \in Callers :
        Returned(c) =>
            /\ Out(c).confidence = Float(75, 100)
            /\ Locals(c) \in LocalsSeen
            /\ Out(c).score = FormulaOf[Locals(c)]
            /\ \A o \in Orders : Near(InOrderOf[Locals(c)][o], Out(c).score)

\* A successful call in which all six adjustments were non-zero and the
\* result lies strictly inside the range.
C3_Witness ==
    \E c \in Callers :
        /\ Returned(c)
        /\ Locals(c).suspicious_count > 0 /\ Locals(c).caps_ratio.s > 0
        /\ Locals(c).excessive_punct.s > 0 /\ Locals(c).emotional_count > 0
        /\ Locals(c).credible_count > 0
        /\ ~Locals(c).reading.raised /\ FLt(FInt(16), Locals(c).reading.grade)
        /\ FLt(Float(1, 10), Out(c).score) /\ FLt(Out(c).score, FInt(1))

SameInput(a, b) ==
    /\ call[a].title = call[b].title
    /\ call[a].content = call[b].content

Result(c) == [score |-> Out(c).score, confidence |-> Out(c).confidence]

\* The first n characters of s, or all of s when it is shorter.
FirstChars(s, n) == IF Len(s) <= n THEN s ELSE SubSeq(s, 1, n)

\* C4: the result depends on the content only through its first 500
\* characters, and on the whole title: calls with the same title and contents
\* that agree on their first 500 characters return the same result, and the
\* analysed text holds the whole title followed by at most 500 characters of
\* content.
C4_ContentPrefixOnly ==
    /\ \A a, b \in Callers :
           ( /\ Done(a) /\ Done(b)
             /\ call[a].title = call[b].title
             /\ call[a].content.kind = "str" /\ call[b].content.kind = "str"
             /\ FirstChars(call[a].content.val, 500) = FirstChars(call[b].content.val, 500) )
           => Result(a) = Result(b)
    /\ \A c \in Callers :
           Returned(c) =>
               LET t == call[c].title.val
                   k == call[c].content.val
                   n == IF Len(k) < 500 THEN Len(k) ELSE 500
               IN  /\ Len(Out(c).text) = Len(t) + 2 + n
                   /\ SubSeq(Out(c).text, 1, Len(t)) = t
                   /\ SubSeq(Out(c).text, Len(t) + 3, Len(t) + 2 + n) = FirstChars(k, 500)

\* Two calls with the same title of more than 500 characters, whose phrase
\* after character 500 was counted, and with contents that differ only after
\* character 500, have returned the same result.
C4_Witness ==
    \E a, b \in Callers :
        /\ Returned(a) /\ Returned(b)
        /\ call[a].title = call[b].title
        /\ Len(call[a].title.val) > 500
        /\ Locals(a).suspicious_count = 1
        /\ call[a].content # call[b].content
        /\ Len(call[a].content.val) > 500 /\ Len(call[b].content.val) > 500
        /\ Result(a) = Result(b)

\* The features other than the two phrase counts agree in the two calls.
OtherFeaturesEqual(a, b) ==
    /\ Locals(a).caps_ratio = Locals(b).caps_ratio
    /\ Locals(a).excessive_punct = Locals(b).excessive_punct
    /\ Locals(a).reading = Locals(b).reading
    /\ Locals(a).emotional_count = Locals(b).emotional_count

OneMoreSuspicious(a, b) ==
    /\ Returned(a) /\ Returned(b) /\ OtherFeaturesEqual(a, b)
    /\ Locals(a).credible_count = Locals(b).credible_count
    /\ Locals(b).suspicious_count = Locals(a).suspicious_count + 1

OneMoreCredible(a, b) ==
    /\ Returned(a) /\ Returned(b) /\ OtherFeaturesEqual(a, b)
    /\ Locals(a).suspicious_count = Locals(b).suspicious_count
    /\ Locals(b).credible_count = Locals(a).credible_count + 1

\* C6 as stated: one more suspicious phrase strictly lowers the score unless
\* the score is at the floor 0.1 (then it is unchanged); one more credibility
\* phrase strictly raises it unless it is at the ceiling 1.0 (then unchanged).
C6_AsStated ==
    \A a, b \in Callers :
        /\ OneMoreSuspicious(a, b) =>
               IF Out(a).score = Float(1, 10) THEN Out(b).score = Out(a).score
               ELSE FLt(Out(b).score, Out(a).score)
        /\ OneMoreCredible(a, b) =>
               IF Out(a).score = FInt(1) THEN Out(b).score = Out(a).score
               ELSE FLt(Out(a).score, Out(b).score)

\* C6 (amended): one more suspicious phrase never raises the score and
\* strictly lowers it unless the score is clamped at the floor 0.1 or stays
\* clamped at the ceiling 1.0; one more credibility phrase never lowers it
\* and strictly raises it unless the score is clamped at the ceiling 1.0 or
\* stays clamped at the floor 0.1.  In the excepted cases it is unchanged.
C6_ClampedMonotonicity ==
    \A a, b \in Callers :
        /\ OneMoreSuspicious(a, b) =>
               \/ FLt(Out(b).score, Out(a).score)
               \/ /\ Out(b).score = Out(a).score
                  /\ Out(a).score \in {Float(1, 10), FInt(1)}
        /\ OneMoreCredible(a, b) =>
               \/ FLt(Out(a).score, Out(b).score)
               \/ /\ Out(b).score = Out(a).score
                  /\ Out(a).score \in {Float(1, 10), FInt(1)}

\* Two calls that differ by one suspicious phrase only, the first clamped at
\* the ceiling: the second has returned the ceiling too.
C6_Witness ==
    \E a, b \in Callers :
        /\ OneMoreSuspicious(a, b)
        /\ Out(a).score = FInt(1) /\ Out(b).score = FInt(1)

\* C7: when the reading-grade estimate fails, the call still returns a normal
\* result with confidence 0.75, whose score has no reading-grade adjustment
\* and all five other adjustments.
C7_GradeFailureRecovered ==
    \A c \in Callers :
        (Done(c) /\ call[c].content.kind = "str"
                 /\ flesch_kincaid_grade(fkSeed, Out(c).text).raised) =>
            /\ Out(c).branch = "return"
            /\ Out(c).confidence = Float(75, 100)
            /\ Out(c).score =
                   ClampTo(FAdd(FSub(FSub(FSub(FSub(Float(7, 10),
                       FMul(Float(5, 100), FInt(Locals(c).suspicious_count))),
                       FMul(Float(3, 10), Locals(c).caps_ratio)),
                       FMul(FInt(20), Locals(c).excessive_punct)),
                       FMul(Float(3, 100), FInt(Locals(c).emotional_count))),
                       FMul(Float(5, 100), FInt(Locals(c).credible_count))),
                       Float(1, 10), FInt(1))

\* A call whose reading-grade estimate failed, with the five other features
\* all present, has returned a normal result.
C7_Witness ==
    \E c \in Callers :
        /\ Returned(c) /\ Locals(c).reading.raised
        /\ Locals(c).suspicious_count > 0 /\ Locals(c).caps_ratio.s > 0
        /\ Locals(c).excessive_punct.s > 0 /\ Locals(c).emotional_count > 0
        /\ Locals(c).credible_count > 0
        /\ FLt(Float(1, 10), Out(c).score)

\* The number of places of the lower-cased text low where phrase occurs.
Occurrences(low, phrase) ==
    Cardinality({i \in 1..(Len(low) - Len(phrase) + 1) :
                     SubSeq(low, i, i + Len(phrase) - 1) = phrase})

RECURSIVE SumOccurrences(_, _, _)
SumOccurrences(low, words, k) ==
    IF k = 0 THEN 0
    ELSE Occurrences(low, words[k]) + SumOccurrences(low, words, k - 1)

\* Occurrences of the list's phrases in text, letter case ignored.
TotalOccurrences(text, words) ==
    LET low == Lower(text) IN SumOccurrences(low, words, Len(words))

\* The phrases of the list that occur in text, letter case ignored.
PhrasesPresent(text, words) ==
    LET low == Lower(text)
    IN  Cardinality({k \in 1..Len(words) : Occurrences(low, words[k]) >= 1})

\* C8 as stated: each of the three counts is the number of case-insensitive
\* substring occurrences of the list's phrases, a repeated phrase counting
\* once per occurrence.
C8_AsStated ==
    \A c \in Callers :
        Returned(c) =>
            /\ Locals(c).suspicious_count
                   = TotalOccurrences(Out(c).text, suspicious_words)
            /\ Locals(c).emotional_count
                   = TotalOccurrences(Out(c).text, emotional_words)
            /\ Locals(c).credible_count
                   = TotalOccurrences(Out(c).text, credible_indicators)

\* C8 (amended): each of the three counts is the number of phrases of the
\* list that occur at least once in the analysed text as a case-insensitive
\* substring, word boundaries ignored; a phrase that occurs several times
\* counts once.
C8_DistinctPhrasesCounted ==
    \A c \in Callers :
        Returned(c) =>
            /\ Locals(c).suspicious_count = PhrasesPresent(Out(c).text, suspicious_words)
            /\ Locals(c).emotional_count = PhrasesPresent(Out(c).text, emotional_words)
            /\ Locals(c).credible_count = PhrasesPresent(Out(c).text, credible_indicators)

\* A call on a text where one suspicious phrase occurs four times, in mixed
\* case and inside a longer word, and another only inside a longer word: the
\* count is two.
C8_Witness ==
    \E c \in Callers :
        /\ Returned(c)
        /\ Occurrences(Lower(Out(c).text), "secret") = 4
        /\ Occurrences(Lower(Out(c).text), "viral") = 1
        /\ Occurrences(Lower(Out(c).text), "amazing") = 2
        /\ Locals(c).suspicious_count = 2
        /\ Locals(c).emotional_count = 1

NoPhraseMidGrade(c) ==
    /\ Returned(c)
    /\ Locals(c).suspicious_count = 0
    /\ Locals(c).emotional_count = 0
    /\ Locals(c).credible_count = 0
    /\ ~Locals(c).reading.raised
    /\ FLe(FInt(6), Locals(c).reading.grade)
    /\ FLe(Locals(c).reading.grade, FInt(16))

\* C9 as stated: a text that matches no phrase of the three lists and whose
\* reading grade lies between 6 and 16 scores exactly 0.7.
C9_AsStated ==
    \A c \in Callers : NoPhraseMidGrade(c) => Out(c).score = Float(7, 10)

\* C9 (amended): a text that matches no phrase of the three lists, whose
\* reading grade lies between 6 and 16, and that has no upper-case token
\* longer than two characters and no '!' or '?', scores exactly 0.7.
C9_NeutralTextScoresBase ==
    \A c \in Callers :
        ( /\ NoPhraseMidGrade(c)
          /\ CapsWords(Out(c).text) = 0
          /\ CountChar(Out(c).text, "!") + CountChar(Out(c).text, "?") = 0 )
        => Out(c).score = Float(7, 10)

\* A neutral text whose reading grade is the boundary 6 has scored 0.7.
C9_Witness ==
    \E c \in Callers :
        /\ NoPhraseMidGrade(c)
        /\ Locals(c).caps_ratio = FInt(0) /\ Locals(c).excessive_punct = FInt(0)
        /\ Locals(c).reading.grade = FInt(6)
        /\ Out(c).score = Float(7, 10)

(***************************************************************************)
(* Properties of fetch_and_process_articles.                               *)
(***************************************************************************)
\* C10: within one run, the pacing sleep has been executed between any two
\* consecutive calls of summarize_text, also when the processing of the
\* earlier article ended with an error.
C10_SleepBetweenSummaries ==
    \A r \in Runs :
        \A i, j \in 1..Len(run[r].calls) :
            ( /\ i < j
              /\ run[r].calls[i] = "summarize_text"
              /\ run[r].calls[j] = "summarize_text" )
            => \E k \in (i + 1)..(j - 1) : run[r].calls[k] = "sleep"

\* The articles collection holds a document with this url.
Stored(url) == \E k \in 1..Len(store) : store[k].url = url

\* Every stored document carries the score detect_fake_news returns for its
\* title and content.
C11_StoredScoreIsDetectorScore ==
    \A k \in 1..Len(store) :
        store[k].credibility_score
            = DetectOf[fkSeed][<< store[k].title, store[k].content >>].score

\* Within one run the detector is called at most once for each fetched
\* article.
C11_ScoredAtMostOnce ==
    \A r \in Runs :
        \A i, j \in 1..Len(run[r].scored) :
            run[r].scored[i] = run[r].scored[j] => i = j

\* The step that calls the detector: summarize_text has returned.
CallsDetector(r) == run[r].pc = "summarize_text" /\ run'[r].pc = "insert_one"

\* The detector is never called for an article whose url is stored.
C11_DetectorOnlyForNewUrl ==
    [][\A r \in Runs :
          CallsDetector(r) => ~Stored(run[r].raw_articles[run[r].i].url)]_vars

\* A run that has got the database ends only after its last fetched
\* article: an error on one article is followed by the next article.
C11_ErrorDoesNotEndRun ==
    [][\A r \in Runs :
          (run[r].pc \notin {"idle", "ping", "finished"} /\ run'[r].pc = "finished")
              => run[r].i = Len(run[r].raw_articles)]_vars

\* C11: every stored article carries the score detect_fake_news returned for
\* it, the detector is called at most once per fetched article and never for
\* an article whose url is already stored, and an error on one article does
\* not end the run before the remaining articles.
C11_ScoringNeverBlocksIngestion ==
    /\ []C11_StoredScoreIsDetectorScore
    /\ []C11_ScoredAtMostOnce
    /\ C11_DetectorOnlyForNewUrl
    /\ C11_ErrorDoesNotEndRun

\* C14: no two stored articles share a url.
C14_UrlsUnique ==
    \A i, j \in 1..Len(store) : store[i].url = store[j].url => i = j

(***************************************************************************)
(* Properties of summarize_text.                                           *)
(***************************************************************************)
\* The remote call of a finished summarize_text call succeeded: status 200
\* and a body whose first item carries a summary string.
RemoteSucceeded(c) ==
    /\ ~summ[c].response.raised /\ summ[c].response.status = 200
    /\ ~summ[c].result.raised /\ summ[c].result.islist
    /\ Len(summ[c].result.items) > 0
    /\ summ[c].result.items[1].isdict
    /\ summ[c].result.items[1].has_summary_text
    /\ summ[c].result.items[1].summary_text.kind = "str"

\* C12: a call of summarize_text makes at most one remote request and
\* returns a string: the remote summary when the remote call succeeded, the
\* extractive fallback of the text when the remote call failed.
C12_SummaryOrFallback ==
    \A c \in Callers :
        summ[c].pc = "done" =>
            /\ Len(summ[c].requests) <= 1
            /\ summ[c].out.kind = "str"
            /\ Len(summ[c].requests) = 1 =>
                   IF RemoteSucceeded(c)
                   THEN summ[c].out = summ[c].result.items[1].summary_text
                   ELSE summ[c].out = PyStr(SummarizeOf[summ[c].text].fallback)

(***************************************************************************)
(* Properties of get_article.                                              *)
(***************************************************************************)
\* The lookup of request c ran without an error and found no document.
NotFound(c) ==
    /\ req[c].pc = "done"
    /\ req[c].raised \in {<< >>, << "HTTPException(404)" >>}
    /\ req[c].article = 0

\* C13: a request for an id that no stored article has is answered with
\* status 404, and status 500 only answers other errors.
C13_MissingArticleIs404 ==
    \A c \in Callers :
        /\ NotFound(c) => req[c].status = 404
        /\ (req[c].pc = "done" /\ req[c].status = 500) => ~NotFound(c)

(***************************************************************************)
(* Properties of get_database and init_db.                                 *)
(***************************************************************************)
\* Every handle get_database has returned is of a client whose ping had
\* succeeded when the handle was returned.
C15_HandleOnlyAfterPing ==
    [][\A c \in Callers :
          (conn'[c] # conn[c] /\ conn'[c].pc = "done" /\ conn'[c].out = "handle")
              => conn'[c].handle \in db'.pinged]_vars

\* After a failed ping no client is stored while none is being pinged.
C15_FailedPingUnsetsClient ==
    (\A c \in Callers : conn[c].pc # "ping") => db.client \in db.pinged \cup {0}

\* At most one client is created while one is stored.
C15_OneClient == db.created <= 1

\* C15: get_database returns a handle only of a client whose ping succeeded,
\* a failed ping leaves no client stored, and at most one client is created
\* while one is stored.
C15_OnlyVerifiedClient ==
    /\ C15_HandleOnlyAfterPing
    /\ []C15_FailedPingUnsetsClient
    /\ []C15_OneClient

====
